---- MODULE Spec2Model ----
(***************************************************************************)
(* Noun Mixer (PL) API, src/app.py: the tokenizer WORD_RX, the tag parser  *)
(* parse_tag, the seeding stable_seed, and the handler mix with the        *)
(* helpers it calls.                                                       *)
(*                                                                         *)
(* A text is a sequence of characters; a character is a one-element        *)
(* string, except "eacute"/"Eacute", which stand for U+00E9/U+00C9: letters *)
(* for str.isalpha that are outside the letter class of WORD_RX.            *)
(* Morfeusz (morf) is an external library: it is modelled as a fixed       *)
(* deterministic lexicon, MorfAnalyse and MorfGenerate, which may return   *)
(* nothing, return short tuples, or raise.                                 *)
(* hashlib.md5 and random.Random are modelled by a polynomial hash and a   *)
(* linear congruential generator of reduced width: what is kept is that    *)
(* the seed is a function of the joined, encoded parts and that every      *)
(* draw is a function of the generator's state.                            *)
(***************************************************************************)
EXTENDS Integers, Sequences, FiniteSets, TLC

VARIABLES
    \* one call of mix (src/app.py:146-182)
    pc,         \* "idle", "loop" (in the for loop), "done", "raised"
    safe,       \* policy variant: FALSE = the handler of src/app.py
    rtxt, dtxt, strength,
    tokens, donors, seed, rng, idx, out, prevWord, result,
    draws,      \* history: the draws made by this call, in order
    subs,       \* history: the substitutions made by this call, in order
    \* a reference call and what it returned, for comparing repeated calls
    refArgs, first,
    \* WORD_RX.findall applied to one text
    tkIn, tkOut, tkDone,
    \* parse_tag applied to one tag
    tgIn, tgOut, tgDone

mixVars == <<pc, safe, rtxt, dtxt, strength, tokens, donors, seed, rng, idx,
             out, prevWord, result, draws, subs>>
detVars == <<refArgs, first>>
tkVars  == <<tkIn, tkOut, tkDone>>
tgVars  == <<tgIn, tgOut, tgDone>>
vars    == <<mixVars, detVars, tkVars, tgVars>>

----------------------------------------------------------------------------
(* Bounds of the model *)

MaxRecLen == 3      \* recipient texts have at most this many characters
MaxTokLen == 4      \* texts given to the tokenizer alone
MaxTagSegs == 3     \* segments after the part of speech in a parsed tag

----------------------------------------------------------------------------
(* Characters and str methods *)

LowerSeq == <<"a","b","c","d","e","f","g","h","i","j","k","l","m",
              "n","o","p","q","r","s","t","u","v","w","x","y","z">>
UpperSeq == <<"A","B","C","D","E","F","G","H","I","J","K","L","M",
              "N","O","P","Q","R","S","T","U","V","W","X","Y","Z">>
DigitSeq == <<"0","1","2","3","4","5","6","7","8","9">>

Range(s) == {s[k] : k \in DOMAIN s}
IndexIn(s, c) == CHOOSE k \in DOMAIN s : s[k] = c

AsciiLower == Range(LowerSeq)
AsciiUpper == Range(UpperSeq)
AsciiDigit == Range(DigitSeq)
SpaceChars == {" "}

\* str.isupper / str.islower / str.isalpha / str.isspace on one character
CharIsUpper(c) == c \in AsciiUpper \cup {"Eacute"}
CharIsLower(c) == c \in AsciiLower \cup {"eacute"}
CharIsAlpha(c) == CharIsUpper(c) \/ CharIsLower(c)
CharIsSpace(c) == c \in SpaceChars

\* str.upper / str.lower on one character
CharUpper(c) ==
    IF c \in AsciiLower THEN UpperSeq[IndexIn(LowerSeq, c)]
    ELSE IF c = "eacute" THEN "Eacute" ELSE c
CharLower(c) ==
    IF c \in AsciiUpper THEN LowerSeq[IndexIn(UpperSeq, c)]
    ELSE IF c = "Eacute" THEN "eacute" ELSE c

\* str.lower and str.capitalize on a text
StrLower(s) == [k \in DOMAIN s |-> CharLower(s[k])]
StrCapitalize(s) ==
    [k \in DOMAIN s |-> IF k = 1 THEN CharUpper(s[k]) ELSE CharLower(s[k])]

\* "".join(list of texts)
RECURSIVE StrJoin(_)
StrJoin(ss) == IF ss = <<>> THEN <<>> ELSE Head(ss) \o StrJoin(Tail(ss))

\* sep.join(list of texts)
RECURSIVE StrJoinSep(_, _)
StrJoinSep(sep, ss) ==
    IF ss = <<>> THEN <<>>
    ELSE IF Len(ss) = 1 THEN ss[1]
    ELSE ss[1] \o sep \o StrJoinSep(sep, Tail(ss))

\* s.split(":"): the segments between the colons, empty ones included
RECURSIVE StrSplit(_, _)
StrSplit(s, acc) ==
    IF s = <<>> THEN <<acc>>
    ELSE IF Head(s) = ":" THEN <<acc>> \o StrSplit(Tail(s), <<>>)
    ELSE StrSplit(Tail(s), Append(acc, Head(s)))

\* s.startswith(p)
StartsWith(s, p) == Len(s) >= Len(p) /\ SubSeq(s, 1, Len(p)) = p

SeqsUpTo(S, n) == UNION {[1..k -> S] : k \in 0..n}

----------------------------------------------------------------------------
(* Tokenizer: WORD_RX and WORD_RX.findall, src/app.py:37 *)

\* the character classes the pattern names
RxSpace(c)  == c \in SpaceChars
RxLetter(c) == c \in AsciiLower \cup AsciiUpper
RxDigit(c)  == c \in AsciiDigit
RxOther(c)  == ~RxSpace(c) /\ ~RxLetter(c) /\ ~RxDigit(c)

InClass(cls, c) ==
    CASE cls = "space"  -> RxSpace(c)
      [] cls = "letter" -> RxLetter(c)
      [] cls = "digit"  -> RxDigit(c)
      [] OTHER          -> FALSE

\* length of the maximal run of class cls starting at position p
RECURSIVE RunLen(_, _, _)
RunLen(text, p, cls) ==
    IF p > Len(text) \/ ~InClass(cls, text[p]) THEN 0
    ELSE 1 + RunLen(text, p + 1, cls)

\* a pattern without its last alternative: other characters match nothing
WORD_RX_no_other(text, p) ==
    IF RunLen(text, p, "space") > 0 THEN RunLen(text, p, "space")
    ELSE IF RunLen(text, p, "letter") > 0 THEN RunLen(text, p, "letter")
    ELSE RunLen(text, p, "digit")

\* length of the match of WORD_RX at position p, 0 when it does not match:
\* the alternatives are tried in the order written
WORD_RX(text, p) ==
    IF RunLen(text, p, "space") > 0 THEN RunLen(text, p, "space")
    ELSE IF RunLen(text, p, "letter") > 0 THEN RunLen(text, p, "letter")
    ELSE IF RunLen(text, p, "digit") > 0 THEN RunLen(text, p, "digit")
    ELSE IF RxOther(text[p]) THEN 1
    ELSE 0

\* findall: scan from p, emit each match, skip a character that matches nothing
RECURSIVE FindAllFrom(_, _)
FindAllFrom(text, p) ==
    IF p > Len(text) THEN <<>>
    ELSE LET m == WORD_RX(text, p)
         IN  IF m = 0 THEN FindAllFrom(text, p + 1)
             ELSE <<SubSeq(text, p, p + m - 1)>> \o FindAllFrom(text, p + m)

findall(text) == FindAllFrom(text, 1)

\* src/app.py:39-43
is_whitespace(t) == t # <<>> /\ \A k \in DOMAIN t : CharIsSpace(t[k])
is_word(t) ==
    /\ t # <<>>
    /\ ~(\A k \in DOMAIN t : CharIsSpace(t[k]))
    /\ \A k \in DOMAIN t : CharIsAlpha(t[k])

----------------------------------------------------------------------------
(* Tag parser: parse_tag, src/app.py:68-84 *)

NumberVals == {<<"s","g">>, <<"p","l">>}
CaseVals   == {<<"n","o","m">>, <<"g","e","n">>, <<"d","a","t">>, <<"a","c","c">>,
               <<"i","n","s","t">>, <<"l","o","c">>, <<"v","o","c">>}
GenderVals == {<<"m","1">>, <<"m","2">>, <<"m","3">>, <<"f">>, <<"n">>}

\* a key the dict does not hold
Absent == <<>>

\* one pass of the loop body over segment p
ParseSeg(feats, p) ==
    IF p \in NumberVals THEN [feats EXCEPT !.number = p]
    ELSE IF p \in CaseVals THEN [feats EXCEPT !.case = p]
    ELSE IF p \in GenderVals THEN [feats EXCEPT !.gender = p]
    ELSE feats

RECURSIVE ParseSegs(_, _)
ParseSegs(feats, ps) ==
    IF ps = <<>> THEN feats ELSE ParseSegs(ParseSeg(feats, Head(ps)), Tail(ps))

\* a loop body that keeps the first value of each key
ParseSegFirst(feats, p) ==
    IF p \in NumberVals THEN (IF feats.number = Absent THEN [feats EXCEPT !.number = p] ELSE feats)
    ELSE IF p \in CaseVals THEN (IF feats.case = Absent THEN [feats EXCEPT !.case = p] ELSE feats)
    ELSE IF p \in GenderVals THEN (IF feats.gender = Absent THEN [feats EXCEPT !.gender = p] ELSE feats)
    ELSE feats

RECURSIVE ParseSegsFirst(_, _)
ParseSegsFirst(feats, ps) ==
    IF ps = <<>> THEN feats
    ELSE ParseSegsFirst(ParseSegFirst(feats, Head(ps)), Tail(ps))

parse_tag_first_wins(tag) ==
    LET parts == StrSplit(tag, <<>>)
    IN  ParseSegsFirst([pos |-> parts[1], number |-> Absent, case |-> Absent,
                        gender |-> Absent], Tail(parts))

parse_tag(tag) ==
    LET parts == StrSplit(tag, <<>>)
    IN  ParseSegs([pos |-> parts[1], number |-> Absent, case |-> Absent,
                   gender |-> Absent], Tail(parts))

----------------------------------------------------------------------------
(* Seeding: stable_seed, src/app.py:45-47, and f"{strength:.4f}" *)

\* strength is held in units of 1/StrengthScale
StrengthScale == 100000

\* ord() of the characters that reach the hash
Ord(c) ==
    IF c \in AsciiLower THEN 96 + IndexIn(LowerSeq, c)
    ELSE IF c \in AsciiUpper THEN 64 + IndexIn(UpperSeq, c)
    ELSE IF c \in AsciiDigit THEN 47 + IndexIn(DigitSeq, c)
    ELSE CASE c = " " -> 32 [] c = "(" -> 40 [] c = ")" -> 41 [] c = "." -> 46
           [] c = ":" -> 58 [] c = "|" -> 124 [] OTHER -> 63

\* str.encode("utf-8"): one byte for ASCII, two for U+00E9 and U+00C9
Utf8(c) ==
    IF c = "eacute" THEN <<195, 169>>
    ELSE IF c = "Eacute" THEN <<195, 137>>
    ELSE <<Ord(c)>>

RECURSIVE Encode(_)
Encode(s) == IF s = <<>> THEN <<>> ELSE Utf8(Head(s)) \o Encode(Tail(s))

\* width of the seed: the digest prefix int(h[:16], 16), reduced
SeedBits == 16
HashMul == 31

\* the digest of a byte string, as a polynomial hash of SeedBits bits
RECURSIVE Digest(_, _)
Digest(bs, h) ==
    IF bs = <<>> THEN h
    ELSE Digest(Tail(bs), (h * HashMul + Head(bs) + 1) % (2 ^ SeedBits))

stable_seed(parts) == Digest(Encode(StrJoinSep(<<"|", "|">>, parts)), 7)

\* the decimal digits of n, at least w of them
RECURSIVE Digits(_, _)
Digits(n, w) ==
    IF w <= 1 /\ n < 10 THEN <<DigitSeq[n + 1]>>
    ELSE Append(Digits(n \div 10, w - 1), DigitSeq[(n % 10) + 1])

\* f"{strength:.4f}": rounded to the nearest 1/10000 (the strengths used are
\* never half way between two such values)
FormatStrength(s) ==
    LET r == (s + 5) \div 10
    IN  Digits(r \div 10000, 1) \o <<".">> \o Digits(r % 10000, 4)

----------------------------------------------------------------------------
(* random.Random: a generator of RngBits bits of state *)

RngBits == 12
LcgA == 2053
LcgC == 13849
RngMod == 2 ^ RngBits

\* random.Random(seed)
RandomSeeded(sd) == sd % RngMod

RngStep(g) == (LcgA * g + LcgC) % RngMod

\* rng.random(): val / RngMod is the float in [0, 1)
rng_random(g) == [val |-> RngStep(g), rng |-> RngStep(g)]

\* rng.getrandbits(k)
getrandbits(g, k) == [val |-> RngStep(g) \div (2 ^ (RngBits - k)), rng |-> RngStep(g)]

RECURSIVE BitLength(_)
BitLength(n) == IF n = 0 THEN 0 ELSE 1 + BitLength(n \div 2)

\* rng._randbelow(n), n > 0: draw bit_length(n) bits until the value is below n
RECURSIVE randbelow(_, _)
randbelow(g, n) ==
    LET d == getrandbits(g, BitLength(n))
    IN  IF d.val < n THEN d ELSE randbelow(d.rng, n)

\* rng.choice(seq): IndexError on an empty sequence
rng_choice(g, seq) ==
    IF seq = <<>> THEN [raised |-> TRUE, val |-> <<>>, at |-> 0, rng |-> g]
    ELSE LET d == randbelow(g, Len(seq))
         IN  [raised |-> FALSE, val |-> seq[d.val + 1], at |-> d.val, rng |-> d.rng]

\* the comparison with the wrong sense
DrawExceedsInverted(val, s) == val * StrengthScale < s * RngMod

\* rng.random() > strength, src/app.py:171
DrawExceeds(val, s) == val * StrengthScale > s * RngMod

----------------------------------------------------------------------------
(* Morfeusz: morf.analyse and morf.generate, src/app.py:32, 91, 128 *)

NoneVal == <<"None">>

TagNomM1 == <<"s","u","b","s","t",":","s","g",":","n","o","m",":","m","1">>
TagNomM2 == <<"s","u","b","s","t",":","s","g",":","n","o","m",":","m","2">>
TagNomN  == <<"s","u","b","s","t",":","s","g",":","n","o","m",":","n">>
TagGenF  == <<"s","u","b","s","t",":","s","g",":","g","e","n",":","f">>
TagPlNom == <<"s","u","b","s","t",":","p","l",":","n","o","m",":","m","2">>
TagPrep  == <<"p","r","e","p",":","l","o","c">>
TagConj  == <<"c","o","n","j">>
TagIgn   == <<"i","g","n">>

LemmaB == <<"b", ":", "s">>     \* a lemma carrying a disambiguation suffix

\* morf.analyse(tok): a list of tuples (start, end, info), info = (form, lemma, tag, ...)
MorfAnalyse(tok) ==
    CASE tok = <<"x">> -> [raised |-> TRUE, val |-> <<>>]
      [] tok = <<"a">> ->
           [raised |-> FALSE,
            val |-> << <<0, 1, <<tok, <<"a">>, TagConj>>>>,
                       <<0, 1, <<tok, <<"a">>, TagNomM2>>>> >>]
      [] tok = <<"A">> ->
           [raised |-> FALSE,
            val |-> << <<0, 1>>, <<0, 1, <<tok, <<"A">>, TagNomM1>>>> >>]
      [] tok = <<"b">> ->
           [raised |-> FALSE, val |-> << <<0, 1, <<tok, LemmaB, TagGenF>>>> >>]
      [] tok \in {<<"c">>, <<"C">>} ->
           [raised |-> FALSE, val |-> << <<0, 1, <<tok, tok, TagNomN>>>> >>]
      [] tok \in {<<"w">>, <<"W">>} ->
           [raised |-> FALSE, val |-> << <<0, 1, <<tok, <<"w">>, TagPrep>>>> >>]
      [] tok = <<"a", "a">> ->
           [raised |-> FALSE, val |-> << <<0, 1, <<tok, <<"a">>, TagPlNom>>>> >>]
      [] tok = <<"a", "b">> ->
           [raised |-> FALSE, val |-> << <<0, 1, <<tok, tok>>>> >>]
      [] tok = <<"b", "a">> ->
           [raised |-> FALSE, val |-> << <<0, 1, <<tok, <<>>, TagNomM2>>>> >>]
      [] OTHER ->
           [raised |-> FALSE, val |-> << <<0, 1, <<tok, tok, TagIgn>>>> >>]

\* a result of morf.generate: a tuple of fields, or a plain string
VTuple(fields) == [isTuple |-> TRUE, items |-> fields]
VStr(text)     == [isTuple |-> FALSE, items |-> text]

\* morf.generate(lemma, tag): a list of variants
MorfGenerate(lemma, tag) ==
    CASE lemma = <<"a">> /\ tag \in {TagNomM1, TagNomM2, TagNomN} ->
           [raised |-> FALSE, val |-> <<VTuple(<<<<"a">>, lemma, tag>>)>>]
      [] lemma = <<"a">> /\ tag = TagGenF ->
           [raised |-> FALSE,
            val |-> <<VTuple(<<<<"a","u">>, lemma, tag>>), VTuple(<<<<"a","y">>, lemma, tag>>)>>]
      [] lemma = <<"a">> /\ tag = TagPlNom ->
           [raised |-> FALSE, val |-> <<VStr(<<"a","e">>)>>]
      [] lemma = <<"A">> /\ tag \in {TagNomM1, TagNomM2, TagNomN} ->
           [raised |-> FALSE, val |-> <<VTuple(<<<<"A">>, lemma, tag>>)>>]
      [] lemma = LemmaB /\ tag \in {TagNomM1, TagNomM2} ->
           [raised |-> FALSE, val |-> <<VTuple(<<<<"b","a",":","s">>, lemma, tag>>)>>]
      [] lemma = LemmaB /\ tag = TagGenF -> [raised |-> TRUE, val |-> <<>>]
      [] lemma = LemmaB /\ tag = TagPlNom ->
           [raised |-> FALSE, val |-> <<VTuple(<<>>)>>]
      [] OTHER -> [raised |-> FALSE, val |-> <<>>]

----------------------------------------------------------------------------
(* analyze_token_word, donor_lemmas, generate_form, match_casing *)

NotNoun == [raised |-> FALSE, is_n |-> FALSE, lemma |-> NoneVal, tag |-> NoneVal,
            feats |-> [pos |-> Absent, number |-> Absent, case |-> Absent,
                       gender |-> Absent]]

\* the for loop of analyze_token_word over the analyses, src/app.py:93-110
RECURSIVE FirstNoun(_)
FirstNoun(analyses) ==
    IF analyses = <<>> THEN NotNoun
    ELSE LET a == Head(analyses)
         IN  IF Len(a) < 3 THEN FirstNoun(Tail(analyses))
             ELSE LET info  == a[3]
                      lemma == IF Len(info) > 1 THEN info[2] ELSE NoneVal
                      tag   == IF Len(info) > 2 THEN info[3] ELSE <<>>
                  IN  IF StartsWith(tag, <<"s","u","b","s","t">>)
                         /\ lemma # NoneVal /\ lemma # <<>>
                      THEN [raised |-> FALSE, is_n |-> TRUE, lemma |-> lemma,
                            tag |-> tag, feats |-> parse_tag(tag)]
                      ELSE FirstNoun(Tail(analyses))

\* src/app.py:86-110: morf.analyse is called outside any try
analyze_token_word(tok) ==
    LET r == MorfAnalyse(tok)
    IN  IF r.raised THEN [NotNoun EXCEPT !.raised = TRUE] ELSE FirstNoun(r.val)

\* the loop of donor_lemmas over the tokens, src/app.py:115-120
RECURSIVE CollectLemmas(_, _)
CollectLemmas(toks, acc) ==
    IF toks = <<>> THEN [raised |-> FALSE, val |-> acc]
    ELSE IF ~is_word(Head(toks)) THEN CollectLemmas(Tail(toks), acc)
    ELSE LET an == analyze_token_word(Head(toks))
         IN  IF an.raised THEN [raised |-> TRUE, val |-> <<>>]
             ELSE IF an.is_n /\ an.lemma # <<>>
                  THEN CollectLemmas(Tail(toks), Append(acc, an.lemma))
                  ELSE CollectLemmas(Tail(toks), acc)

\* src/app.py:112-121
donor_lemmas(text) == CollectLemmas(findall(text), <<>>)

\* str(v) of a variant that is not a non-empty tuple
StrOf(v) == IF v.isTuple THEN <<"(", ")">> ELSE v.items

\* src/app.py:123-134
generate_form(lemma, tag) ==
    LET r == MorfGenerate(lemma, tag)
    IN  IF r.raised THEN [raised |-> TRUE, val |-> <<>>]
        ELSE IF r.val # <<>>
             THEN LET v == r.val[1]
                  IN  IF v.isTuple /\ Len(v.items) > 0
                      THEN [raised |-> FALSE, val |-> v.items[1]]
                      ELSE [raised |-> FALSE, val |-> StrOf(v)]
             ELSE [raised |-> FALSE, val |-> lemma]

\* src/app.py:176-179: generate_form(...) or donor_lemma, inside try/except
NewForm(lemma, tag) ==
    LET r == generate_form(lemma, tag)
    IN  IF r.raised \/ r.val = <<>> THEN lemma ELSE r.val

\* a matcher that never capitalizes
match_casing_none(src, dst) == dst

\* src/app.py:136-137
match_casing(src, dst) ==
    IF src # <<>> /\ CharIsUpper(src[1]) THEN StrCapitalize(dst) ELSE dst

----------------------------------------------------------------------------
(* Safe-mode policy variant: the guards of the substitution policy *)

Stoplist == {<<"c">>}
RiskyPrepositions == {<<"w">>}

\* the guards without the test of the preceding word
SafeGuardsNoPrep(an, prev) ==
    /\ an.feats.case = <<"n","o","m">>
    /\ StrLower(an.lemma) \notin Stoplist

\* all three guards: nominative, lemma not stoplisted, no risky preposition before
SafeGuards(an, prev) ==
    /\ an.feats.case = <<"n","o","m">>
    /\ StrLower(an.lemma) \notin Stoplist
    /\ prev \notin RiskyPrepositions

----------------------------------------------------------------------------
(* Inputs *)

RecAlphabet     == {"a", "A", "b", "w", " ", "x"}
SafeRecAlphabet == {"a", "b", "c", "w", "W", " ", "x"}
DetRecAlphabet  == {"a", "b", " "}
TokAlphabet     == {" ", "a", "A", "1", ".", "eacute"}

RecTexts     == SeqsUpTo(RecAlphabet, MaxRecLen)
SafeRecTexts == SeqsUpTo(SafeRecAlphabet, MaxRecLen)
DetRecTexts  == SeqsUpTo(DetRecAlphabet, MaxRecLen)
TokTexts     == SeqsUpTo(TokAlphabet, MaxTokLen)

DonTexts == {<<>>, <<"w">>, <<"a">>, <<"A">>, <<"b">>, <<"x">>,
             <<"a", " ", "b">>, <<"A", " ", "a", " ", "a">>}
SafeDonTexts == {<<>>, <<"a">>, <<"b", " ", "A">>}

\* strengths in [0, 1], in units of 1/StrengthScale
Strengths == {0, 49998, 50000, 100000}

\* calls made between two calls with the reference arguments
Interference == {<<<<"a", " ", "a">>, <<"a", " ", "b">>, 100000>>,
                 <<<<"a", " ", "x">>, <<"a">>, 100000>>}

PosVocab == {<<"s","u","b","s","t">>, <<"p","r","e","p">>, <<>>}
SegVocab == {<<"s","g">>, <<"p","l">>, <<"n","o","m">>, <<"g","e","n">>,
             <<"m","1">>, <<"f">>, <<"n","o","m",".","a","c","c">>, <<>>}
TagInputs == {StrJoinSep(<<":">>, <<pos>> \o segs) :
                pos \in PosVocab, segs \in SeqsUpTo(SegVocab, MaxTagSegs)}

----------------------------------------------------------------------------
(* mix, src/app.py:146-182 *)

\* a generator kept from the call before instead of a new one
MixRngShared(r, d, s) == rng

\* src/app.py:160
MixSeed(r, d, s) == stable_seed(<<r, d, FormatStrength(s)>>)
MixRng(r, d, s) == RandomSeeded(MixSeed(r, d, s))

\* only the test of the tokens
EarlyReturnTokensOnly(toks, dons) == IF toks = <<>> THEN "empty" ELSE "go"

\* src/app.py:155-158
EarlyReturn(toks, dons) ==
    IF toks = <<>> THEN "empty"
    ELSE IF dons = <<>> THEN "unchanged"
    ELSE "go"

\* every analysed word goes on to the draw
CandidateAny(an) == TRUE

\* src/app.py:168
Candidate(an) == an.is_n

\* lines 148-160: up to the creation of the generator, or an early return
CallMix(r, d, s) ==
    /\ pc \in {"idle", "done", "raised"}
    /\ rtxt' = r /\ dtxt' = d /\ strength' = s
    /\ LET toks == findall(r)
           dl   == donor_lemmas(d)
           er   == EarlyReturn(toks, dl.val)
       IN  /\ tokens' = toks
           /\ donors' = dl.val
           /\ IF dl.raised
              THEN pc' = "raised" /\ result' = NoneVal /\ seed' = 0 /\ rng' = 0
              ELSE IF er = "empty"
              THEN pc' = "done" /\ result' = <<>> /\ seed' = 0 /\ rng' = 0
              ELSE IF er = "unchanged"
              THEN pc' = "done" /\ result' = r /\ seed' = 0 /\ rng' = 0
              ELSE /\ pc' = "loop" /\ result' = NoneVal
                   /\ seed' = MixSeed(r, d, s)
                   /\ rng' = MixRng(r, d, s)
    /\ idx' = 1 /\ out' = <<>> /\ prevWord' = NoneVal
    /\ draws' = <<>> /\ subs' = <<>>
    /\ UNCHANGED <<safe, tkVars, tgVars>>

InLoop == pc = "loop" /\ idx <= Len(tokens)

\* the token is appended unchanged and the loop goes on
PassThrough(t) ==
    /\ out' = Append(out, t)
    /\ idx' = idx + 1
    /\ prevWord' = IF safe /\ is_word(t) THEN StrLower(t) ELSE prevWord
    /\ UNCHANGED <<pc, safe, rtxt, dtxt, strength, tokens, donors, seed, result, subs>>
    /\ UNCHANGED <<detVars, tkVars, tgVars>>

\* lines 164-166
StepNonWord ==
    /\ InLoop
    /\ ~is_word(tokens[idx])
    /\ PassThrough(tokens[idx])
    /\ UNCHANGED <<rng, draws>>

\* line 167: morf.analyse raises and nothing catches it
StepAnalyseRaises ==
    /\ InLoop
    /\ is_word(tokens[idx])
    /\ analyze_token_word(tokens[idx]).raised
    /\ pc' = "raised"
    /\ UNCHANGED <<safe, rtxt, dtxt, strength, tokens, donors, seed, rng, idx, out,
                   prevWord, result, draws, subs>>
    /\ UNCHANGED <<detVars, tkVars, tgVars>>

\* lines 168-170
StepNonNoun ==
    /\ InLoop
    /\ is_word(tokens[idx])
    /\ LET an == analyze_token_word(tokens[idx])
       IN  ~an.raised /\ ~Candidate(an)
    /\ PassThrough(tokens[idx])
    /\ UNCHANGED <<rng, draws>>

\* safe mode: a noun that fails a guard passes through without a draw
StepGuarded ==
    /\ InLoop
    /\ safe
    /\ is_word(tokens[idx])
    /\ LET an == analyze_token_word(tokens[idx])
       IN  ~an.raised /\ Candidate(an) /\ ~SafeGuards(an, prevWord)
    /\ PassThrough(tokens[idx])
    /\ UNCHANGED <<rng, draws>>

Drawing ==
    /\ InLoop
    /\ is_word(tokens[idx])
    /\ LET an == analyze_token_word(tokens[idx])
       IN  ~an.raised /\ Candidate(an) /\ (safe => SafeGuards(an, prevWord))

\* lines 171-173: the threshold draw is above strength
StepSkip ==
    /\ Drawing
    /\ LET d == rng_random(rng)
       IN  /\ DrawExceeds(d.val, strength)
           /\ rng' = d.rng
           /\ draws' = Append(draws, [at |-> idx, kind |-> "random", val |-> d.val])
    /\ PassThrough(tokens[idx])

\* lines 171, 175-180: a donor lemma is chosen and its form is appended
StepSubst ==
    /\ Drawing
    /\ LET t  == tokens[idx]
           an == analyze_token_word(t)
           d  == rng_random(rng)
           c  == rng_choice(d.rng, donors)
           form == NewForm(c.val, an.tag)
           repl == match_casing(t, form)
           d1 == [at |-> idx, kind |-> "random", val |-> d.val]
           d2 == [at |-> idx, kind |-> "choice", val |-> c.at]
       IN  /\ ~DrawExceeds(d.val, strength)
           /\ IF c.raised
              THEN /\ pc' = "raised"
                   /\ rng' = d.rng
                   /\ draws' = Append(draws, d1)
                   /\ UNCHANGED <<idx, out, prevWord, subs>>
              ELSE /\ pc' = pc
                   /\ rng' = c.rng
                   /\ draws' = draws \o <<d1, d2>>
                   /\ out' = Append(out, repl)
                   /\ idx' = idx + 1
                   /\ prevWord' = IF safe THEN StrLower(t) ELSE prevWord
                   /\ subs' = Append(subs, [at |-> idx, src |-> t, lemma |-> c.val,
                                            form |-> form, repl |-> repl])
    /\ UNCHANGED <<safe, rtxt, dtxt, strength, tokens, donors, seed, result>>
    /\ UNCHANGED <<detVars, tkVars, tgVars>>

\* line 182
Return ==
    /\ pc = "loop"
    /\ idx > Len(tokens)
    /\ result' = StrJoin(out)
    /\ pc' = "done"
    /\ UNCHANGED <<safe, rtxt, dtxt, strength, tokens, donors, seed, rng, idx, out,
                   prevWord, draws, subs>>
    /\ UNCHANGED <<detVars, tkVars, tgVars>>

----------------------------------------------------------------------------
(* Initial states and specifications *)

MixIdle ==
    /\ pc = "idle"
    /\ rtxt = <<>> /\ dtxt = <<>> /\ strength = 0
    /\ tokens = <<>> /\ donors = <<>> /\ seed = 0 /\ rng = 0
    /\ idx = 1 /\ out = <<>> /\ prevWord = NoneVal /\ result = NoneVal
    /\ draws = <<>> /\ subs = <<>>

NoFirst == [set |-> FALSE, mixed |-> FALSE, pc |-> "idle", result |-> NoneVal,
            draws |-> <<>>, seed |-> 0]

DetIdle == refArgs = <<<<>>, <<>>, 0>> /\ first = NoFirst
TkIdle  == tkIn = <<>> /\ tkOut = <<>> /\ tkDone = FALSE
TgIdle  == tgIn = <<>> /\ tgDone = FALSE
           /\ tgOut = [pos |-> Absent, number |-> Absent, case |-> Absent, gender |-> Absent]

\* the handler of src/app.py
Init == MixIdle /\ safe = FALSE /\ DetIdle /\ TkIdle /\ TgIdle

\* one request per behaviour: what a call leaves behind is the matter of SpecDet
Call ==
    /\ pc = "idle"
    /\ \E r \in RecTexts, d \in DonTexts, s \in Strengths : CallMix(r, d, s)
    /\ UNCHANGED detVars

Next ==
    \/ Call
    \/ StepNonWord
    \/ StepAnalyseRaises
    \/ StepNonNoun
    \/ StepSkip
    \/ StepSubst
    \/ Return

Spec == Init /\ [][Next]_vars

\* the safe-mode variant
InitSafe == MixIdle /\ safe = TRUE /\ DetIdle /\ TkIdle /\ TgIdle

CallSafe ==
    /\ pc = "idle"
    /\ \E r \in SafeRecTexts, d \in SafeDonTexts, s \in Strengths : CallMix(r, d, s)
    /\ UNCHANGED detVars

NextSafe ==
    \/ CallSafe
    \/ StepNonWord
    \/ StepAnalyseRaises
    \/ StepNonNoun
    \/ StepGuarded
    \/ StepSkip
    \/ StepSubst
    \/ Return

SpecSafe == InitSafe /\ [][NextSafe]_vars

\* repeated calls: the reference arguments are called again, other calls between
InitDet ==
    /\ MixIdle /\ safe = FALSE /\ TkIdle /\ TgIdle
    /\ refArgs \in DetRecTexts \X DonTexts \X Strengths
    /\ first = NoFirst

Finished == pc \in {"done", "raised"} /\ <<rtxt, dtxt, strength>> = refArgs

\* what the reference call returned, recorded when the next call starts
Remember(other) ==
    IF first.set THEN [first EXCEPT !.mixed = first.mixed \/ other]
    ELSE IF Finished
    THEN [set |-> TRUE, mixed |-> other, pc |-> pc, result |-> result,
          draws |-> draws, seed |-> seed]
    ELSE first

CallRef ==
    /\ CallMix(refArgs[1], refArgs[2], refArgs[3])
    /\ first' = Remember(FALSE)
    /\ UNCHANGED refArgs

CallOther ==
    /\ \E a \in Interference : CallMix(a[1], a[2], a[3])
    /\ first' = Remember(TRUE)
    /\ UNCHANGED refArgs

NextDet ==
    \/ CallRef
    \/ CallOther
    \/ StepNonWord
    \/ StepAnalyseRaises
    \/ StepNonNoun
    \/ StepSkip
    \/ StepSubst
    \/ Return

SpecDet == InitDet /\ [][NextDet]_vars

\* the tokenizer alone
InitTok ==
    /\ MixIdle /\ safe = FALSE /\ DetIdle /\ TgIdle
    /\ tkIn \in TokTexts /\ tkOut = <<>> /\ tkDone = FALSE

Tokenize ==
    /\ ~tkDone
    /\ tkOut' = findall(tkIn)
    /\ tkDone' = TRUE
    /\ UNCHANGED <<tkIn, mixVars, detVars, tgVars>>

NextTok == Tokenize

SpecTok == InitTok /\ [][NextTok]_vars

\* the tag parser alone
InitTag ==
    /\ MixIdle /\ safe = FALSE /\ DetIdle /\ TkIdle
    /\ tgIn \in TagInputs /\ tgDone = FALSE
    /\ tgOut = [pos |-> Absent, number |-> Absent, case |-> Absent, gender |-> Absent]

ParseTag ==
    /\ ~tgDone
    /\ tgOut' = parse_tag(tgIn)
    /\ tgDone' = TRUE
    /\ UNCHANGED <<tgIn, mixVars, detVars, tkVars>>

NextTag == ParseTag

SpecTag == InitTag /\ [][NextTag]_vars

----------------------------------------------------------------------------
(* Properties *)

IsNounToken(t) == is_word(t) /\ analyze_token_word(t).is_n

HasSuffix(text) == ":" \in Range(text)

\* the draws made for token k, in order
DrawsAt(k) == LET At(d) == d.at = k IN SelectSeq(draws, At)

\* number of noun tokens among the first n tokens
RECURSIVE NounsBefore(_)
NounsBefore(n) ==
    IF n = 0 THEN 0
    ELSE NounsBefore(n - 1) + (IF IsNounToken(tokens[n]) THEN 1 ELSE 0)

\* the values drawn for n noun tokens from generator state g: one threshold
\* draw each, and an index draw after a threshold draw that is <= strength
RECURSIVE Replay(_, _)
Replay(g, n) ==
    IF n = 0 THEN <<>>
    ELSE LET d == rng_random(g)
         IN  IF d.val * StrengthScale > strength * RngMod
             THEN <<d.val>> \o Replay(d.rng, n - 1)
             ELSE LET c == randbelow(d.rng, Len(donors))
                  IN  <<d.val, c.val>> \o Replay(c.rng, n - 1)

\* the nearest word token before position k, lowered; NoneVal when there is none
RECURSIVE WordBefore(_)
WordBefore(k) ==
    IF k <= 1 THEN NoneVal
    ELSE IF is_word(tokens[k - 1]) THEN StrLower(tokens[k - 1])
    ELSE WordBefore(k - 1)

TagSegs == Tail(StrSplit(tgIn, <<>>))
FirstIn(segs, S) ==
    IF \E k \in DOMAIN segs : segs[k] \in S
    THEN segs[CHOOSE k \in DOMAIN segs :
                 segs[k] \in S /\ \A j \in 1..(k - 1) : segs[j] \notin S]
    ELSE Absent
LastIn(segs, S) ==
    IF \E k \in DOMAIN segs : segs[k] \in S
    THEN segs[CHOOSE k \in DOMAIN segs :
                 segs[k] \in S /\ \A j \in (k + 1)..Len(segs) : segs[j] \notin S]
    ELSE Absent

\* C1: a call of mix with the reference arguments ends as the earlier call
\* with the same arguments did (same text or same failure), from the same
\* seed and with the same draws, whatever calls were made in between.
Determinism ==
    (first.set /\ Finished) =>
        /\ pc = first.pc
        /\ result = first.result
        /\ seed = first.seed
        /\ draws = first.draws

DeterminismWitness ==
    /\ first.set /\ first.mixed /\ Finished
    /\ pc = "done" /\ subs # <<>>

\* C2: the tokens of a text, concatenated in order, are the text, and every
\* token is a run of whitespace, a run of letters, a run of digits, or one
\* other character.
TokenizerRoundTrip ==
    tkDone =>
        /\ StrJoin(tkOut) = tkIn
        /\ \A k \in DOMAIN tkOut :
             LET t == tkOut[k]
             IN  /\ t # <<>>
                 /\ \/ \A j \in DOMAIN t : RxSpace(t[j])
                    \/ \A j \in DOMAIN t : RxLetter(t[j])
                    \/ \A j \in DOMAIN t : RxDigit(t[j])
                    \/ Len(t) = 1 /\ RxOther(t[1])

TokenizerWitness ==
    /\ tkDone
    /\ \E k \in DOMAIN tkOut : Len(tkOut[k]) >= 2
    /\ \E k \in DOMAIN tkOut : RxOther(tkOut[k][1])
    /\ \E k \in DOMAIN tkOut : RxSpace(tkOut[k][1])

\* C3: mix never raises: a failure of the oracle's analysis never ends the call.
MixNeverRaises == pc # "raised"

\* C4, as claimed: the leading character of every replacement has the case of
\* the leading character of the token it replaces.
CasingLaw ==
    \A k \in DOMAIN subs :
        CharIsUpper(subs[k].src[1]) <=> CharIsUpper(subs[k].repl[1])

\* C4, amended: a token that starts in upper case is replaced by the form
\* capitalized (so by an upper-case leading letter when the form starts with a
\* letter); any other token is replaced by the form exactly as generated,
\* whatever the case of its leading character.
CasingLawAmended ==
    \A k \in DOMAIN subs :
        LET u == subs[k]
        IN  /\ out[u.at] = u.repl
            /\ CharIsUpper(u.src[1]) =>
                  /\ u.repl = StrCapitalize(u.form)
                  /\ CharIsAlpha(u.form[1]) => CharIsUpper(u.repl[1])
            /\ ~CharIsUpper(u.src[1]) => u.repl = u.form

CasingWitness ==
    \E k \in DOMAIN subs :
        /\ CharIsUpper(subs[k].src[1])
        /\ CharIsLower(subs[k].form[1])
        /\ subs[k].repl # subs[k].form

\* C5: when the donor lemma collector returns an empty pool, mix returns the
\* recipient text unchanged and makes no draw.
DonorEmptyIdentity ==
    (pc # "idle" /\ ~donor_lemmas(dtxt).raised /\ donor_lemmas(dtxt).val = <<>>) =>
        /\ pc = "done"
        /\ result = rtxt
        /\ draws = <<>>
        /\ subs = <<>>

DonorEmptyWitness ==
    /\ pc = "done" /\ donors = <<>> /\ dtxt # <<>>
    /\ strength = StrengthScale
    /\ \E k \in DOMAIN tokens : IsNounToken(tokens[k])
    /\ result = rtxt

\* C6: with strength 1 and a non-empty pool, every noun token handled so far
\* was substituted: a donor lemma of the pool was chosen for it and its cased
\* form stands at the token's place in the output.
StrengthOneExhaustive ==
    (pc \in {"loop", "done"} /\ strength = StrengthScale /\ donors # <<>>) =>
        \A k \in 1..(idx - 1) :
            IsNounToken(tokens[k]) =>
                \E j \in DOMAIN subs :
                    /\ subs[j].at = k
                    /\ subs[j].lemma \in Range(donors)
                    /\ out[k] = subs[j].repl

StrengthOneWitness ==
    /\ pc = "done" /\ strength = StrengthScale
    /\ Len(subs) >= 2

\* C7: when mix has returned, no lemma of the donor pool and no generated form
\* it used carries a disambiguation suffix, and none appears in the text
\* returned for a recipient that had none.
SuffixCleaned ==
    pc = "done" =>
        /\ \A k \in DOMAIN donors : ~HasSuffix(donors[k])
        /\ \A k \in DOMAIN subs : ~HasSuffix(subs[k].form)
        /\ ~HasSuffix(rtxt) => ~HasSuffix(result)

\* C8: in safe mode every draw and every substitution is for a noun token that
\* is nominative, whose lemma is not stoplisted and whose preceding word token
\* is no risky preposition; a token a guard rejects has no draw.
SafeModeGuardLaws ==
    safe =>
        \A k \in DOMAIN tokens :
            (DrawsAt(k) # <<>> \/ \E j \in DOMAIN subs : subs[j].at = k) =>
                LET an == analyze_token_word(tokens[k])
                IN  /\ an.is_n
                    /\ an.feats.case = <<"n","o","m">>
                    /\ StrLower(an.lemma) \notin Stoplist
                    /\ WordBefore(k) \notin RiskyPrepositions

SafeModeWitness ==
    /\ safe /\ pc = "done" /\ strength = StrengthScale /\ donors # <<>>
    /\ \E k \in DOMAIN tokens :
         /\ IsNounToken(tokens[k])
         /\ analyze_token_word(tokens[k]).feats.case = <<"n","o","m">>
         /\ WordBefore(k) \in RiskyPrepositions
         /\ DrawsAt(k) = <<>>
         /\ out[k] = tokens[k]

\* C9: draws are made in token order; a token that is not a noun has no draw;
\* a noun token has one threshold draw, and one index draw after it exactly
\* when the threshold draw is <= strength; the values drawn are those the
\* seed gives for the number of noun tokens handled, whatever lies between.
DrawDiscipline ==
    (pc \in {"loop", "done"} /\ donors # <<>>) =>
        /\ \A j \in 1..(Len(draws) - 1) : draws[j].at <= draws[j + 1].at
        /\ \A j \in DOMAIN draws : draws[j].at < idx
        /\ \A k \in 1..(idx - 1) :
             LET ds == DrawsAt(k)
             IN  IF ~IsNounToken(tokens[k]) THEN ds = <<>>
                 ELSE /\ Len(ds) \in {1, 2}
                      /\ ds[1].kind = "random"
                      /\ (Len(ds) = 2) <=>
                            (ds[1].val * StrengthScale <= strength * RngMod)
                      /\ Len(ds) = 2 => ds[2].kind = "choice"
        /\ [j \in DOMAIN draws |-> draws[j].val]
              = Replay(RandomSeeded(seed), NounsBefore(idx - 1))

DrawDisciplineWitness ==
    /\ pc = "done"
    /\ Len(draws) = 3
    /\ \E k \in DOMAIN tokens : ~IsNounToken(tokens[k])
    /\ \E k \in DOMAIN tokens : Len(DrawsAt(k)) = 1
    /\ \E k \in DOMAIN tokens : Len(DrawsAt(k)) = 2

\* C10, as claimed: the part of speech is the first segment, and number, case
\* and gender are each the first later segment of the category's value set.
TagFirstMatchWins ==
    tgDone =>
        /\ tgOut.pos = StrSplit(tgIn, <<>>)[1]
        /\ tgOut.number = FirstIn(TagSegs, NumberVals)
        /\ tgOut.case = FirstIn(TagSegs, CaseVals)
        /\ tgOut.gender = FirstIn(TagSegs, GenderVals)

\* C10, amended: number, case and gender are each the last later segment of
\* the category's value set (a later segment of a category replaces an
\* earlier one); other segments are ignored.
TagLastMatchWins ==
    tgDone =>
        /\ tgOut.pos = StrSplit(tgIn, <<>>)[1]
        /\ tgOut.number = LastIn(TagSegs, NumberVals)
        /\ tgOut.case = LastIn(TagSegs, CaseVals)
        /\ tgOut.gender = LastIn(TagSegs, GenderVals)

TagWitness ==
    /\ tgDone
    /\ FirstIn(TagSegs, NumberVals) # LastIn(TagSegs, NumberVals)
    /\ \E k \in DOMAIN TagSegs :
         TagSegs[k] \notin NumberVals \cup CaseVals \cup GenderVals

====
